---- MODULE Spec2Model ----
(***************************************************************************)
(* Model of the deployment scheduler of fastapi-hypervisor:                *)
(*   app/helper.py, app/celery_worker.py, app/routes/deployment.py,        *)
(*   app/models.py.                                                        *)
(*                                                                         *)
(* The database tables are the variable `deployments` (rows of Deployment, *)
(* indexed by id) and the fixed table Clusters.  The Celery broker is the  *)
(* bag `queue` of task messages; `workers` holds, for every worker of the  *)
(* pool, the position and the local variables of the process_deployment    *)
(* invocation it is executing.  Every database commit of the code is the   *)
(* end of one action, so that invocations interleave between any read and  *)
(* the commit that depends on it.  `revoked` is the set of task ids a stop *)
(* signal was sent for, `snapshots` the table ClusterResourceSnapshot.      *)
(***************************************************************************)
EXTENDS Integers, Sequences, FiniteSets, Bags, TLC

VARIABLES deployments, queue, workers, revoked, dispatched, snapshots

vars == <<deployments, queue, workers, revoked, dispatched, snapshots>>

(***************************************************************************)
(* Bounds of the model.                                                    *)
(***************************************************************************)
NumWorkers == 3     \* size of the worker pool (concurrent invocations)
MaxWork == 6        \* deployments created plus process_deployment tasks sent
MaxCaptures == 1    \* runs of capture_resource_utilization
MaxIncrease == 2    \* a reading is compared with those up to this much higher

(***************************************************************************)
(* models.py                                                               *)
(***************************************************************************)
PENDING == "pending"
QUEUED == "queued"
RUNNING == "running"
PREEMPTED == "preempted"
FAILED == "failed"
COMPLETED == "completed"

DeploymentStatus == {PENDING, QUEUED, RUNNING, PREEMPTED, FAILED, COMPLETED}

\* A str of the program is the sequence of its characters.
HIGH == <<"h", "i", "g", "h">>
MEDIUM == <<"m", "e", "d", "i", "u", "m">>
LOW == <<"l", "o", "w">>

DeploymentPriority == {LOW, MEDIUM, HIGH}

DEFAULT_MAX_ATTEMPTS == 2

None == "None"

Res(c, r, g) == [cpu |-> c, ram |-> r, gpu |-> g]

\* The Cluster table: two clusters with a fixed total capacity.
Clusters == [c1 |-> Res(4, 4, 1), c2 |-> Res(1, 1, 1)]

ClusterIds == DOMAIN Clusters

\* A new row of Deployment, with the defaults of the model's fields.
Deployment(cluster_id, priority, requested) ==
    [cluster_id |-> cluster_id,
     priority |-> priority,
     requested_cpu |-> requested.cpu,
     requested_ram |-> requested.ram,
     requested_gpu |-> requested.gpu,
     status |-> PENDING,
     attempts |-> 0,
     max_attempts |-> DEFAULT_MAX_ATTEMPTS,
     failure_reason |-> None,
     was_preempted |-> FALSE,
     preempted_count |-> 0,
     completed_at |-> None]

\* The request bodies of POST /deployments the model submits; the last one
\* names a cluster there is no row of.
DeploymentInput ==
    { [cluster_id |-> "c1", priority |-> LOW, requested |-> Res(2, 2, 0)],
      [cluster_id |-> "c1", priority |-> HIGH, requested |-> Res(4, 2, 1)],
      [cluster_id |-> "c2", priority |-> MEDIUM, requested |-> Res(4, 1, 0)],
      [cluster_id |-> "c0", priority |-> MEDIUM, requested |-> Res(1, 1, 0)] }

DeploymentIds == DOMAIN deployments

(***************************************************************************)
(* helper.py: the priority model                                           *)
(***************************************************************************)
PRIORITY_MAP == (LOW :> 0) @@ (MEDIUM :> 1) @@ (HIGH :> 2)

DEFAULT_PRIORITY_VALUE == 1

\* A priority that is None: no str.
NonePriority == <<None>>

\* str.lower() on one character.
LowerChar ==
    [A |-> "a", B |-> "b", C |-> "c", D |-> "d", E |-> "e", F |-> "f",
     G |-> "g", H |-> "h", I |-> "i", J |-> "j", K |-> "k", L |-> "l",
     M |-> "m", N |-> "n", O |-> "o", P |-> "p", Q |-> "q", R |-> "r",
     S |-> "s", T |-> "t", U |-> "u", V |-> "v", W |-> "w", X |-> "x",
     Y |-> "y", Z |-> "z"]

\* str.lower()
str_lower(str) ==
    [i \in DOMAIN str |->
        IF str[i] \in DOMAIN LowerChar THEN LowerChar[str[i]] ELSE str[i]]

\* The position of the first `sep` in str, 0 if there is none.
find(str, sep) ==
    IF \E i \in DOMAIN str : str[i] = sep
    THEN CHOOSE i \in DOMAIN str :
            str[i] = sep /\ \A j \in 1..(i - 1) : str[j] # sep
    ELSE 0

\* str.split(sep)[0]
split_0(str, sep) ==
    IF find(str, sep) = 0 THEN str ELSE SubSeq(str, 1, find(str, sep) - 1)

\* str.split(sep)[1], for a str that contains sep
split_1(str, sep) ==
    split_0(SubSeq(str, find(str, sep) + 1, Len(str)), sep)

\* get_priority_value looking the value up as it is, without the handling
\* of the enum representation and of the letter case.
get_priority_value_of_exact_token(priority) ==
    IF priority = NonePriority THEN DEFAULT_PRIORITY_VALUE
    ELSE IF priority \in DOMAIN PRIORITY_MAP
         THEN PRIORITY_MAP[priority]
         ELSE DEFAULT_PRIORITY_VALUE

get_priority_value(priority) ==
    IF priority = NonePriority THEN DEFAULT_PRIORITY_VALUE
    ELSE LET name == IF find(priority, ".") # 0
                     THEN split_0(split_1(priority, "."), ":")
                     ELSE priority
             priority_lower == str_lower(name)
         IN IF priority_lower \in DOMAIN PRIORITY_MAP
            THEN PRIORITY_MAP[priority_lower]
            ELSE DEFAULT_PRIORITY_VALUE

(***************************************************************************)
(* helper.py: the resource accountant and the admission checker            *)
(***************************************************************************)
RECURSIVE SumOver(_, _, _)
\* sum(d.<field> for d in deployments), the ids taken from the set S
SumOver(S, table, field) ==
    IF S = {} THEN 0
    ELSE LET d == CHOOSE x \in S : TRUE
         IN table[d][field] + SumOver(S \ {d}, table, field)

\* The accounting over the RUNNING rows only: a finished deployment gives
\* its capacity back.
get_cluster_resource_utilization_of_running(table) ==
    [c \in ClusterIds |->
        LET used == {d \in DOMAIN table :
                        /\ table[d].cluster_id = c
                        /\ table[d].status = RUNNING}
        IN [total_resources |-> Clusters[c],
            used_resources |-> Res(SumOver(used, table, "requested_cpu"),
                                   SumOver(used, table, "requested_ram"),
                                   SumOver(used, table, "requested_gpu"))]]

\* The dictionary get_cluster_resource_utilization() returns: for every row
\* of Cluster its totals and the sums over its RUNNING or COMPLETED rows.
get_cluster_resource_utilization(table) ==
    [c \in ClusterIds |->
        LET used == {d \in DOMAIN table :
                        /\ table[d].cluster_id = c
                        /\ table[d].status \in {RUNNING, COMPLETED}}
        IN [total_resources |-> Clusters[c],
            used_resources |-> Res(SumOver(used, table, "requested_cpu"),
                                   SumOver(used, table, "requested_ram"),
                                   SumOver(used, table, "requested_gpu"))]]

\* What get_cluster_resource_utilization().get(cluster_id) gives for a
\* cluster that has no row: nothing.
NoClusterResources == <<>>

\* The available quantities of a reading of the accounting.
Available(cluster_resources) ==
    Res(cluster_resources.total_resources.cpu
            - cluster_resources.used_resources.cpu,
        cluster_resources.total_resources.ram
            - cluster_resources.used_resources.ram,
        cluster_resources.total_resources.gpu
            - cluster_resources.used_resources.gpu)

\* check_deployment_resources reporting the available quantities with a
\* floor at 0, as the snapshots do.
check_deployment_resources_clamped(deployment, cluster_resources) ==
    IF DOMAIN cluster_resources = {}
    THEN [has_resources |-> FALSE, available |-> Res(0, 0, 0)]
    ELSE LET a == Available(cluster_resources)
             available == Res(IF a.cpu > 0 THEN a.cpu ELSE 0,
                              IF a.ram > 0 THEN a.ram ELSE 0,
                              IF a.gpu > 0 THEN a.gpu ELSE 0)
         IN [has_resources |-> /\ available.cpu >= deployment.requested_cpu
                               /\ available.ram >= deployment.requested_ram
                               /\ available.gpu >= deployment.requested_gpu,
             available |-> available]

\* check_deployment_resources admitting on a gpu quantity that matches the
\* request exactly: more gpu available is a refusal.
check_deployment_resources_exact_gpu(deployment, cluster_resources) ==
    IF DOMAIN cluster_resources = {}
    THEN [has_resources |-> FALSE, available |-> Res(0, 0, 0)]
    ELSE LET available == Available(cluster_resources)
         IN [has_resources |-> /\ available.cpu >= deployment.requested_cpu
                               /\ available.ram >= deployment.requested_ram
                               /\ available.gpu = deployment.requested_gpu,
             available |-> available]

check_deployment_resources(deployment, cluster_resources) ==
    IF DOMAIN cluster_resources = {}
    THEN [has_resources |-> FALSE, available |-> Res(0, 0, 0)]
    ELSE LET available == Available(cluster_resources)
         IN [has_resources |-> /\ available.cpu >= deployment.requested_cpu
                               /\ available.ram >= deployment.requested_ram
                               /\ available.gpu >= deployment.requested_gpu,
             available |-> available]

(***************************************************************************)
(* helper.py: the preemption planner                                       *)
(***************************************************************************)
\* The planner's query with the comparison "<=" in place of "<": workloads of
\* the candidate's own priority become preemptible.
find_not_higher_priority_running_deployments(table, priority) ==
    LET input_priority_value == get_priority_value(priority)
        result == {d \in DOMAIN table :
                     /\ table[d].status = RUNNING
                     /\ get_priority_value(table[d].priority)
                           <= input_priority_value}
        n == Cardinality(result)
    IN {s \in [1..n -> result] :
          /\ \A i, j \in 1..n : i # j => s[i] # s[j]
          /\ \A i, j \in 1..n :
                i < j => get_priority_value(table[s[i]].priority)
                            <= get_priority_value(table[s[j]].priority)}

\* The lists find_lower_priority_running_deployments can return: every row
\* with status RUNNING whose priority value is strictly below the input's,
\* sorted by priority value.  The query has no ORDER BY and the sort is
\* stable, so rows of equal priority come in whatever order the database
\* returns them: every such order is a possible result.
find_lower_priority_running_deployments(table, priority) ==
    LET input_priority_value == get_priority_value(priority)
        all_running == {d \in DOMAIN table : table[d].status = RUNNING}
        result == {d \in all_running :
                     get_priority_value(table[d].priority) < input_priority_value}
        n == Cardinality(result)
    IN {s \in [1..n -> result] :
          /\ \A i, j \in 1..n : i # j => s[i] # s[j]
          /\ \A i, j \in 1..n :
                i < j => get_priority_value(table[s[i]].priority)
                            <= get_priority_value(table[s[j]].priority)}

Enough(potential, deployment) ==
    /\ potential.cpu >= deployment.requested_cpu
    /\ potential.ram >= deployment.requested_ram
    /\ potential.gpu >= deployment.requested_gpu

\* The detached Deployment object the planner holds for row d: its id and
\* the preempted_count it was read with (the other fields execute_preemption
\* uses never change).
Lpd(table, d) == [id |-> d, preempted_count |-> table[d].preempted_count]

RECURSIVE PreemptionLoop(_, _, _, _, _, _)
\* The for loop of try_preemption from position i on.
PreemptionLoop(table, deployment, lower, i, potential, preemptible) ==
    IF i > Len(lower)
    THEN [potential |-> potential, preemptible |-> preemptible]
    ELSE LET lpd == table[lower[i]]
             p == Res(potential.cpu + lpd.requested_cpu,
                      potential.ram + lpd.requested_ram,
                      potential.gpu + lpd.requested_gpu)
             l == Append(preemptible, Lpd(table, lower[i]))
         IN IF Enough(p, deployment)
            THEN [potential |-> p, preemptible |-> l]
            ELSE PreemptionLoop(table, deployment, lower, i + 1, p, l)

\* try_preemption reporting success as soon as it found anything to preempt,
\* without the final comparison of lines 251-254.
try_preemption_without_final_check(table, deployment, available, lower_priority_deployments) ==
    LET r == PreemptionLoop(table, deployment, lower_priority_deployments,
                            1, available, <<>>)
    IN [preemption_success |-> r.preemptible # <<>>,
        preemptible_deployments |-> r.preemptible]

\* try_preemption without the break of lines 246-249: every lower-priority
\* running deployment is taken.
try_preemption_without_break(table, deployment, available, lower_priority_deployments) ==
    LET all == {lower_priority_deployments[i] :
                   i \in DOMAIN lower_priority_deployments}
        potential ==
            Res(available.cpu + SumOver(all, table, "requested_cpu"),
                available.ram + SumOver(all, table, "requested_ram"),
                available.gpu + SumOver(all, table, "requested_gpu"))
    IN [preemption_success |-> Enough(potential, deployment),
        preemptible_deployments |->
            [i \in DOMAIN lower_priority_deployments |->
                Lpd(table, lower_priority_deployments[i])]]

\* try_preemption for one result `lower_priority_deployments` of
\* find_lower_priority_running_deployments(deployment.priority).
try_preemption(table, deployment, available, lower_priority_deployments) ==
    LET r == PreemptionLoop(table, deployment, lower_priority_deployments,
                            1, available, <<>>)
    IN [preemption_success |-> Enough(r.potential, deployment),
        preemptible_deployments |-> r.preemptible]

Ids(preemptible_deployments) ==
    {preemptible_deployments[i].id : i \in DOMAIN preemptible_deployments}

\* The rows execute_preemption commits: every deployment of the list becomes
\* PREEMPTED, with the counter of the planner's object plus one.
execute_preemption(table, preemptible_deployments) ==
    [d \in DOMAIN table |->
        IF d \in Ids(preemptible_deployments)
        THEN LET lpd == CHOOSE x \in {preemptible_deployments[i] :
                                        i \in DOMAIN preemptible_deployments} :
                            x.id = d
             IN [table[d] EXCEPT !.status = PREEMPTED,
                                 !.was_preempted = TRUE,
                                 !.preempted_count = lpd.preempted_count + 1]
        ELSE table[d]]

(***************************************************************************)
(* The broker and the worker pool                                          *)
(***************************************************************************)
\* process_deployment.apply_async(args=[id], task_id=...): retry = 0 stands
\* for task_id = id, retry = n > 0 for task_id = "<id>-retry-<n>".
ProcessTask(id, retry) ==
    [task |-> "process_deployment", deployment_id |-> id, retry |-> retry]

SweepTask ==
    [task |-> "check_queued_deployments", deployment_id |-> 0, retry |-> 0]

\* The work of a run so far: the rows of Deployment created and the
\* process_deployment tasks sent (`dispatched`).  The model explores the
\* runs whose work stays within MaxWork.
Work == Len(deployments) + dispatched

\* apply_async: the messages join the broker's queue.
Send(msgs) ==
    LET n == BagCardinality(msgs) - CopiesIn(SweepTask, msgs)
    IN /\ Work + n <= MaxWork
       /\ dispatched' = dispatched + n
       /\ queue' = queue (+) msgs

\* The local variables of a process_deployment invocation that has loaded
\* its deployment: where it is, the task it runs, and the locals of the code.
Invocation(pc, m, available) ==
    [pc |-> pc, deployment_id |-> m.deployment_id, retry |-> m.retry,
     available |-> available, preemptible |-> <<>>, attempts |-> 0]

\* The invocations in progress are a bag: the pool's workers are alike.
Replace(inv, new) == (workers (-) SetToBag({inv})) (+) SetToBag({new})

Finish(inv) == workers (-) SetToBag({inv})

FreeWorker == BagCardinality(workers) < NumWorkers

Init ==
    /\ deployments = <<>>
    /\ queue = EmptyBag
    /\ workers = EmptyBag
    /\ revoked = {}
    /\ dispatched = 0
    /\ snapshots = <<>>

(***************************************************************************)
(* routes/deployment.py                                                    *)
(***************************************************************************)
\* create_deployment without the lookup of the cluster (lines 74-77).
create_deployment_response_for_any_cluster(table, args) ==
    [status_code |-> 200,
     table |-> Append(table,
         Deployment(args.cluster_id, args.priority, args.requested)),
     tasks |-> SetToBag({ProcessTask(Len(table) + 1, 0)})]

\* What create_deployment answers, commits and sends for the table it finds.
create_deployment_response(table, args) ==
    IF args.cluster_id \notin ClusterIds
    THEN [status_code |-> 404, table |-> table, tasks |-> EmptyBag]
    ELSE [status_code |-> 200,
          table |-> Append(table,
              Deployment(args.cluster_id, args.priority, args.requested)),
          tasks |-> SetToBag({ProcessTask(Len(table) + 1, 0)})]

\* POST /deployments
create_deployment(args) ==
    LET r == create_deployment_response(deployments, args)
    IN /\ Work + 2 <= MaxWork
       /\ deployments' = r.table
       /\ Send(r.tasks)
       /\ UNCHANGED <<workers, revoked, snapshots>>

\* An id no deployment has.
UnknownId == 0

retryable_statuses == {PREEMPTED, QUEUED, FAILED}

\* retry_deployment without the test of the status (lines 156-167).
retry_deployment_response_in_any_status(table, dep_id) ==
    IF dep_id \notin DOMAIN table
    THEN [status_code |-> 404, table |-> table, tasks |-> EmptyBag]
    ELSE [status_code |-> 200,
          table |-> [table EXCEPT ![dep_id].status = PENDING,
                                  ![dep_id].attempts = 0,
                                  ![dep_id].failure_reason = None],
          tasks |-> SetToBag({ProcessTask(dep_id, 0)})]

\* retry_deployment putting the workload at the highest priority.
retry_deployment_response_with_priority_raised(table, dep_id) ==
    IF dep_id \notin DOMAIN table
    THEN [status_code |-> 404, table |-> table, tasks |-> EmptyBag]
    ELSE IF table[dep_id].status \notin retryable_statuses
    THEN [status_code |-> 400, table |-> table, tasks |-> EmptyBag]
    ELSE [status_code |-> 200,
          table |-> [table EXCEPT ![dep_id].status = PENDING,
                                  ![dep_id].attempts = 0,
                                  ![dep_id].failure_reason = None,
                                  ![dep_id].priority = HIGH],
          tasks |-> SetToBag({ProcessTask(dep_id, 0)})]

\* What retry_deployment answers, commits and sends for the table it finds.
retry_deployment_response(table, dep_id) ==
    IF dep_id \notin DOMAIN table
    THEN [status_code |-> 404, table |-> table, tasks |-> EmptyBag]
    ELSE IF table[dep_id].status \notin retryable_statuses
    THEN [status_code |-> 400, table |-> table, tasks |-> EmptyBag]
    ELSE [status_code |-> 200,
          table |-> [table EXCEPT ![dep_id].status = PENDING,
                                  ![dep_id].attempts = 0,
                                  ![dep_id].failure_reason = None],
          tasks |-> SetToBag({ProcessTask(dep_id, 0)})]

\* GET /deployments/{dep_id}/retry
retry_deployment(dep_id) ==
    LET r == retry_deployment_response(deployments, dep_id)
    IN /\ deployments' = r.table
       /\ Send(r.tasks)
       /\ UNCHANGED <<workers, revoked, snapshots>>

(***************************************************************************)
(* celery_worker.py: process_deployment, one action per commit             *)
(***************************************************************************)
\* The absent deployment answered with a sweep, as the end of a run is.
process_deployment_NotFound_then_sweep(m) ==
    /\ queue' = (queue (-) SetToBag({m})) (+) SetToBag({SweepTask})
    /\ UNCHANGED <<deployments, workers>>

\* Lines 52-54: there is no deployment of this id.
process_deployment_NotFound(m) ==
    /\ queue' = queue (-) SetToBag({m})
    /\ UNCHANGED <<deployments, workers>>

\* The missing cluster handled as a failed run: the attempt is counted.
process_deployment_ClusterNotFound_as_fault(m) ==
    /\ queue' = queue (-) SetToBag({m})
    /\ deployments' =
          [deployments EXCEPT
             ![m.deployment_id].status = FAILED,
             ![m.deployment_id].failure_reason =
                 "Cluster not found or no resources available",
             ![m.deployment_id].attempts = @ + 1]
    /\ UNCHANGED workers

\* Lines 57-64: the accounting has no entry for the deployment's cluster.
process_deployment_ClusterNotFound(m) ==
    /\ queue' = queue (-) SetToBag({m})
    /\ deployments' =
          [deployments EXCEPT
             ![m.deployment_id].status = FAILED,
             ![m.deployment_id].failure_reason =
                 "Cluster not found or no resources available"]
    /\ UNCHANGED workers

\* process_deployment taking the available quantities from the last
\* snapshot of the cluster, when there is one, instead of the accounting.
process_deployment_Check_on_last_snapshot(m) ==
    /\ FreeWorker
    /\ BagIn(m, queue)
    /\ m.task = "process_deployment"
    /\ UNCHANGED <<revoked, dispatched, snapshots>>
    /\ IF m.deployment_id \notin DeploymentIds
       THEN process_deployment_NotFound(m)
       ELSE LET deployment == deployments[m.deployment_id]
                utilization == get_cluster_resource_utilization(deployments)
            IN IF deployment.cluster_id \notin DOMAIN utilization
               THEN process_deployment_ClusterNotFound(m)
               ELSE LET r == check_deployment_resources(
                                 deployment, utilization[deployment.cluster_id])
                        available ==
                            IF snapshots = <<>> THEN r.available
                            ELSE snapshots[Len(snapshots)]
                                    [deployment.cluster_id].available
                    IN /\ queue' = queue (-) SetToBag({m})
                       /\ workers' = workers (+) SetToBag({
                              Invocation(IF Enough(available, deployment)
                                         THEN "admit" ELSE "try_preemption",
                                         m, available)})
                       /\ UNCHANGED deployments

\* Lines 50-68: a worker takes the task, loads the deployment, reads the
\* accounting of its cluster and runs the admission check.
process_deployment_Check(m) ==
    /\ FreeWorker
    /\ BagIn(m, queue)
    /\ m.task = "process_deployment"
    /\ UNCHANGED <<revoked, dispatched, snapshots>>
    /\ IF m.deployment_id \notin DeploymentIds
       THEN process_deployment_NotFound(m)
       ELSE LET deployment == deployments[m.deployment_id]
                utilization == get_cluster_resource_utilization(deployments)
            IN IF deployment.cluster_id \notin DOMAIN utilization
               THEN process_deployment_ClusterNotFound(m)
               ELSE LET r == check_deployment_resources(
                                 deployment, utilization[deployment.cluster_id])
                    IN /\ queue' = queue (-) SetToBag({m})
                       /\ workers' = workers (+) SetToBag({
                              Invocation(IF r.has_resources
                                         THEN "admit" ELSE "try_preemption",
                                         m, r.available)})
                       /\ UNCHANGED deployments

\* The commit of status RUNNING (lines 74-76 and 89-91).  execute_deployment
\* then reads the row again before its first sleep (the commit expired it),
\* so the attempts counter the failure handler uses is the one of this moment.
CommitRunning(inv) ==
    /\ deployments' = [deployments EXCEPT ![inv.deployment_id].status = RUNNING]
    /\ workers' = Replace(inv,
          [inv EXCEPT !.pc = "execute",
                      !.attempts = deployments[inv.deployment_id].attempts])
    /\ UNCHANGED <<queue, revoked, dispatched, snapshots>>

\* The admission with the check repeated at the commit: the invocation reads
\* the accounting again and commits RUNNING only if the capacity is still
\* there, and plans a preemption otherwise.
process_deployment_Admit_on_fresh_reading(inv) ==
    /\ BagIn(inv, workers)
    /\ inv.pc = "admit"
    /\ LET deployment == deployments[inv.deployment_id]
           r == check_deployment_resources(deployment,
                    get_cluster_resource_utilization(deployments)
                        [deployment.cluster_id])
       IN IF r.has_resources
          THEN CommitRunning(inv)
          ELSE /\ workers' = Replace(inv,
                     [inv EXCEPT !.pc = "try_preemption",
                                 !.available = r.available])
               /\ UNCHANGED <<deployments, queue, revoked, dispatched, snapshots>>

\* Lines 70-76: resources are available.
process_deployment_Admit(inv) ==
    /\ BagIn(inv, workers)
    /\ inv.pc = "admit"
    /\ CommitRunning(inv)

\* Lines 81-82: try_preemption reads the running deployments and plans.
process_deployment_TryPreemption(inv) ==
    /\ BagIn(inv, workers)
    /\ inv.pc = "try_preemption"
    /\ LET deployment == deployments[inv.deployment_id]
       IN \E lower \in find_lower_priority_running_deployments(
                            deployments, deployment.priority) :
            LET r == try_preemption(deployments, deployment,
                                    inv.available, lower)
            IN workers' = Replace(inv,
                  [inv EXCEPT
                     !.pc = IF r.preemption_success THEN "preempt" ELSE "queue",
                     !.preemptible = r.preemptible_deployments])
    /\ UNCHANGED <<deployments, queue, revoked, dispatched, snapshots>>

\* The invocations a revoke(lpd.id, terminate=True) can stop: those running
\* a task whose task id is the id of a preempted deployment.
Revocable(others, ids) ==
    [r \in {x \in BagToSet(others) : x.deployment_id \in ids /\ x.retry = 0}
        |-> others[r]]

\* Lines 84-86: execute_preemption.  The stop signal is best effort: each
\* invocation it targets is terminated or goes on.
process_deployment_Preempt(inv) ==
    /\ BagIn(inv, workers)
    /\ inv.pc = "preempt"
    /\ revoked' = revoked \cup Ids(inv.preemptible)
    /\ deployments' = execute_preemption(deployments, inv.preemptible)
    /\ \E terminated \in SubBag(Revocable(Finish(inv), Ids(inv.preemptible))) :
          workers' = (Finish(inv) (-) terminated)
                        (+) SetToBag({[inv EXCEPT !.pc = "run"]})
    /\ UNCHANGED <<queue, dispatched, snapshots>>

\* Lines 88-91: the candidate runs after the preemption.
process_deployment_Run(inv) ==
    /\ BagIn(inv, workers)
    /\ inv.pc = "run"
    /\ CommitRunning(inv)

\* The failure branch executing the partial plan all the same: the scanned
\* workloads are preempted although the candidate is queued.
process_deployment_Queue_after_preemption(inv) ==
    /\ BagIn(inv, workers)
    /\ inv.pc = "queue"
    /\ revoked' = revoked \cup Ids(inv.preemptible)
    /\ deployments' =
          [execute_preemption(deployments, inv.preemptible)
              EXCEPT ![inv.deployment_id].status = QUEUED]
    /\ workers' = Finish(inv)
    /\ UNCHANGED <<queue, dispatched, snapshots>>

\* The failure branch handled as a failed run: the attempt is counted and
\* the task is sent again.
process_deployment_Queue_as_failure(inv) ==
    /\ BagIn(inv, workers)
    /\ inv.pc = "queue"
    /\ deployments' =
          [deployments EXCEPT
              ![inv.deployment_id].status = QUEUED,
              ![inv.deployment_id].attempts = @ + 1]
    /\ workers' = Finish(inv)
    /\ \/ Send(SetToBag({ProcessTask(inv.deployment_id,
                            deployments[inv.deployment_id].attempts + 1)}))
       \/ /\ Work >= MaxWork
          /\ UNCHANGED <<queue, dispatched>>
    /\ UNCHANGED <<revoked, snapshots>>

\* Lines 93-100: the planner failed.
process_deployment_Queue(inv) ==
    /\ BagIn(inv, workers)
    /\ inv.pc = "queue"
    /\ deployments' = [deployments EXCEPT ![inv.deployment_id].status = QUEUED]
    /\ workers' = Finish(inv)
    /\ UNCHANGED <<queue, revoked, dispatched, snapshots>>

\* handle_deployment_failure with the comparison "<=" in place of "<": one
\* retry too many.
handle_deployment_failure_once_more(id, attempts) ==
    LET new == attempts + 1
    IN [row |-> [deployments[id] EXCEPT !.status = FAILED,
                                        !.failure_reason = "fault",
                                        !.attempts = new],
        tasks |-> IF new <= deployments[id].max_attempts
                  THEN SetToBag({ProcessTask(id, new)})
                  ELSE EmptyBag]

\* helper.py, handle_deployment_failure: the row and the tasks it commits
\* and dispatches for an invocation whose object holds `attempts`.
handle_deployment_failure(id, attempts) ==
    LET new == attempts + 1
    IN [row |-> [deployments[id] EXCEPT !.status = FAILED,
                                        !.failure_reason = "fault",
                                        !.attempts = new],
        tasks |-> IF new < deployments[id].max_attempts
                  THEN SetToBag({ProcessTask(id, new)})
                  ELSE EmptyBag]

\* execute_deployment committing COMPLETED without the completion timestamp.
execute_deployment_without_timestamp(inv) ==
    /\ BagIn(inv, workers)
    /\ inv.pc = "execute"
    /\ LET id == inv.deployment_id
       IN \/ /\ deployments' = [deployments EXCEPT ![id].status = COMPLETED]
             /\ Send(SetToBag({SweepTask}))
          \/ LET f == handle_deployment_failure(id, inv.attempts)
             IN /\ deployments' = [deployments EXCEPT ![id] = f.row]
                /\ Send(f.tasks (+) SetToBag({SweepTask}))
    /\ workers' = Finish(inv)
    /\ UNCHANGED <<revoked, snapshots>>

\* Lines 103-110 with helper.py, execute_deployment: the run ends, either
\* with success or with an exception; process_deployment then dispatches
\* check_queued_deployments.
execute_deployment(inv) ==
    /\ BagIn(inv, workers)
    /\ inv.pc = "execute"
    /\ LET id == inv.deployment_id
       IN \/ /\ deployments' = [deployments EXCEPT
                                   ![id].status = COMPLETED,
                                   ![id].completed_at = "set"]
             /\ Send(SetToBag({SweepTask}))
          \/ LET f == handle_deployment_failure(id, inv.attempts)
             IN /\ deployments' = [deployments EXCEPT ![id] = f.row]
                /\ Send(f.tasks (+) SetToBag({SweepTask}))
    /\ workers' = Finish(inv)
    /\ UNCHANGED <<revoked, snapshots>>

(***************************************************************************)
(* celery_worker.py: check_queued_deployments                              *)
(***************************************************************************)
\* The CASE expression of the ORDER BY: PRIORITY_MAP applied to the
\* column, DEFAULT_PRIORITY_VALUE for any other value.
get_priority_case(table, d) ==
    IF table[d].priority \in DOMAIN PRIORITY_MAP
    THEN PRIORITY_MAP[table[d].priority]
    ELSE DEFAULT_PRIORITY_VALUE

\* Deployment.created_at is the time of creation: the rows are created one
\* after the other and their ids follow the order of creation.
created_at(d) == d

\* ORDER BY priority ASC, created_at: the sweep with desc() left out.
priority_asc_then_created_at(table, d, e) ==
    \/ get_priority_case(table, d) < get_priority_case(table, e)
    \/ /\ get_priority_case(table, d) = get_priority_case(table, e)
       /\ created_at(d) < created_at(e)

\* ORDER BY desc(get_priority_case()), Deployment.created_at
priority_desc_then_created_at(table, d, e) ==
    \/ get_priority_case(table, d) > get_priority_case(table, e)
    \/ /\ get_priority_case(table, d) = get_priority_case(table, e)
       /\ created_at(d) < created_at(e)

RECURSIVE OrderBy(_, _)
\* The rows S in the order of the ORDER BY: the first row is the one that
\* comes before all others.
OrderBy(S, table) ==
    IF S = {} THEN <<>>
    ELSE LET first == CHOOSE d \in S :
                \A e \in S \ {d} : priority_desc_then_created_at(table, d, e)
         IN <<first>> \o OrderBy(S \ {first}, table)

\* Lines 129-139: the ids of the QUEUED deployments, as the query returns
\* them.
queued_deployment_ids(table) ==
    OrderBy({d \in DOMAIN table : table[d].status = QUEUED}, table)

RECURSIVE SeqToBag(_)
\* The messages of a sequence of apply_async calls.
SeqToBag(msgs) ==
    IF msgs = <<>> THEN EmptyBag
    ELSE SetToBag({Head(msgs)}) (+) SeqToBag(Tail(msgs))

check_queued_deployments ==
    /\ BagIn(SweepTask, queue)
    /\ FreeWorker
    /\ LET deployment_ids == queued_deployment_ids(deployments)
           tasks == SeqToBag([i \in DOMAIN deployment_ids |->
                                 ProcessTask(deployment_ids[i], 0)])
       IN /\ Work + BagCardinality(tasks) <= MaxWork
          /\ dispatched' = dispatched + BagCardinality(tasks)
          /\ queue' = (queue (-) SetToBag({SweepTask})) (+) tasks
    /\ UNCHANGED <<deployments, workers, revoked, snapshots>>

(***************************************************************************)
(* celery_worker.py: the periodic tasks                                    *)
(***************************************************************************)
\* The tasks of celery.conf.beat_schedule.
beat_schedule == {"capture_resource_utilization"}

BeatTask(name) == [task |-> name, deployment_id |-> 0, retry |-> 0]

CaptureTask == BeatTask("capture_resource_utilization")

\* round(used / total * 100, 2) if total > 0 else 0, in hundredths of a
\* percent.
Utilization(used, total) ==
    IF total > 0 THEN (2 * used * 10000 + total) \div (2 * total) ELSE 0

Max0(x) == IF x > 0 THEN x ELSE 0

\* The row of ClusterResourceSnapshot capture_resource_utilization builds.
ClusterResourceSnapshot(cluster_id, resources) ==
    LET total == resources.total_resources
        used == resources.used_resources
    IN [cluster_id |-> cluster_id,
        total |-> total,
        used |-> used,
        available |-> Res(Max0(total.cpu - used.cpu),
                          Max0(total.ram - used.ram),
                          Max0(total.gpu - used.gpu)),
        cpu_utilization |-> Utilization(used.cpu, total.cpu),
        ram_utilization |-> Utilization(used.ram, total.ram),
        gpu_utilization |-> Utilization(used.gpu, total.gpu)]

\* Celery beat: the timer of a scheduled task fires and the task is sent.
\* The model sends a task when the one sent before has been taken.
beat ==
    \E name \in beat_schedule :
        /\ ~BagIn(BeatTask(name), queue)
        /\ name = "capture_resource_utilization"
              => Len(snapshots) < MaxCaptures
        /\ queue' = queue (+) SetToBag({BeatTask(name)})
        /\ UNCHANGED <<deployments, workers, revoked, dispatched, snapshots>>

\* One run writes one snapshot for every cluster, in one commit.
capture_resource_utilization ==
    /\ BagIn(CaptureTask, queue)
    /\ FreeWorker
    /\ queue' = queue (-) SetToBag({CaptureTask})
    /\ LET cluster_resources == get_cluster_resource_utilization(deployments)
       IN snapshots' = Append(snapshots,
             [c \in DOMAIN cluster_resources |->
                 ClusterResourceSnapshot(c, cluster_resources[c])])
    /\ UNCHANGED <<deployments, workers, revoked, dispatched>>

(***************************************************************************)
(* The specification                                                       *)
(***************************************************************************)
Next ==
    \/ \E args \in DeploymentInput : create_deployment(args)
    \/ \E dep_id \in DeploymentIds \cup {UnknownId} : retry_deployment(dep_id)
    \/ \E m \in BagToSet(queue) : process_deployment_Check(m)
    \/ \E inv \in BagToSet(workers) : process_deployment_Admit(inv)
    \/ \E inv \in BagToSet(workers) : process_deployment_TryPreemption(inv)
    \/ \E inv \in BagToSet(workers) : process_deployment_Preempt(inv)
    \/ \E inv \in BagToSet(workers) : process_deployment_Run(inv)
    \/ \E inv \in BagToSet(workers) : process_deployment_Queue(inv)
    \/ \E inv \in BagToSet(workers) : execute_deployment(inv)
    \/ check_queued_deployments

Spec == Init /\ [][Next]_vars

(***************************************************************************)
(* The specification with serialized admissions: from the accounting read  *)
(* of an invocation to its status write (lines 56-100) nothing else runs.  *)
(***************************************************************************)
AdmissionSection == {"admit", "try_preemption", "preempt", "run", "queue"}

NoAdmissionInProgress ==
    \A inv \in BagToSet(workers) : inv.pc \notin AdmissionSection

NextSerial ==
    \/ NoAdmissionInProgress /\ \E args \in DeploymentInput : create_deployment(args)
    \/ NoAdmissionInProgress
          /\ \E dep_id \in DeploymentIds \cup {UnknownId} : retry_deployment(dep_id)
    \/ NoAdmissionInProgress /\ \E m \in BagToSet(queue) : process_deployment_Check(m)
    \/ \E inv \in BagToSet(workers) : process_deployment_Admit(inv)
    \/ \E inv \in BagToSet(workers) : process_deployment_TryPreemption(inv)
    \/ \E inv \in BagToSet(workers) : process_deployment_Preempt(inv)
    \/ \E inv \in BagToSet(workers) : process_deployment_Run(inv)
    \/ \E inv \in BagToSet(workers) : process_deployment_Queue(inv)
    \/ NoAdmissionInProgress /\ \E inv \in BagToSet(workers) : execute_deployment(inv)
    \/ NoAdmissionInProgress /\ check_queued_deployments

SpecSerial == Init /\ [][NextSerial]_vars

(***************************************************************************)
(* The specification of the scheduler on a database that was changed from  *)
(* outside the API: the Cluster row of a deployment and the Deployment row *)
(* of a waiting task were removed.  process_deployment provides for both   *)
(* (lines 52-54 and 57-64); no route of the API removes a row.  The work   *)
(* of a run is counted from this state on.                                 *)
(***************************************************************************)
StoredDeployments == <<Deployment("c0", MEDIUM, Res(1, 1, 0))>>

InitStored ==
    /\ deployments = StoredDeployments
    /\ queue = SetToBag({ProcessTask(1, 0), ProcessTask(UnknownId, 0)})
    /\ workers = EmptyBag
    /\ revoked = {}
    /\ dispatched = 0
    /\ snapshots = <<>>

SpecStored == InitStored /\ [][Next]_vars

(***************************************************************************)
(* The specification of the automatic flow: workloads are created but      *)
(* never retried by hand, celery beat sends its scheduled tasks, and the   *)
(* workers and the timer go on as long as they have something to do.       *)
(***************************************************************************)
WorkerStep ==
    \/ \E m \in BagToSet(queue) : process_deployment_Check(m)
    \/ \E inv \in BagToSet(workers) : process_deployment_Admit(inv)
    \/ \E inv \in BagToSet(workers) : process_deployment_TryPreemption(inv)
    \/ \E inv \in BagToSet(workers) : process_deployment_Preempt(inv)
    \/ \E inv \in BagToSet(workers) : process_deployment_Run(inv)
    \/ \E inv \in BagToSet(workers) : process_deployment_Queue(inv)
    \/ \E inv \in BagToSet(workers) : execute_deployment(inv)
    \/ check_queued_deployments
    \/ capture_resource_utilization

NextScheduled ==
    \/ \E args \in DeploymentInput : create_deployment(args)
    \/ WorkerStep
    \/ beat

SpecScheduled ==
    Init /\ [][NextScheduled]_vars /\ WF_vars(WorkerStep) /\ WF_vars(beat)

(***************************************************************************)
(* The specification of the whole program: the routes of the API, the      *)
(* workers and the scheduled task of celery beat.                          *)
(***************************************************************************)
NextObserved ==
    \/ Next
    \/ beat
    \/ capture_resource_utilization

SpecObserved == Init /\ [][NextObserved]_vars

(***************************************************************************)
(* The specification of the automatic flow for requests whose priority is  *)
(* not one of the three tokens in lower case: the API takes any str, or no *)
(* priority at all (DeploymentInput.priority is Optional[str]).            *)
(***************************************************************************)
PriorityInput ==
    { [cluster_id |-> "c1", priority |-> <<"L", "o", "w">>,
       requested |-> Res(2, 2, 0)],
      [cluster_id |-> "c1", priority |-> <<"x", ".", "h", "i", "g", "h">>,
       requested |-> Res(4, 2, 1)],
      [cluster_id |-> "c2", priority |-> NonePriority,
       requested |-> Res(4, 1, 0)] }

NextPriority ==
    \/ \E args \in PriorityInput : create_deployment(args)
    \/ WorkerStep
    \/ beat

SpecPriority == Init /\ [][NextPriority]_vars

(***************************************************************************)
(* The specification of the automatic flow for requests of three           *)
(* priorities on one cluster: a high-priority candidate finds a low and a  *)
(* medium workload running.                                                *)
(***************************************************************************)
PlannerInput ==
    { [cluster_id |-> "c1", priority |-> MEDIUM, requested |-> Res(1, 1, 0)],
      [cluster_id |-> "c1", priority |-> LOW, requested |-> Res(2, 2, 0)],
      [cluster_id |-> "c1", priority |-> HIGH, requested |-> Res(3, 3, 0)],
      [cluster_id |-> "c1", priority |-> HIGH, requested |-> Res(4, 2, 1)] }

NextPlanner ==
    \/ \E args \in PlannerInput : create_deployment(args)
    \/ WorkerStep
    \/ beat

SpecPlanner == Init /\ [][NextPlanner]_vars

(***************************************************************************)
(* The specification of the scheduler from a state in the middle of a      *)
(* preemption: a low workload is RUNNING and executing, and the invocation *)
(* of a high workload has planned to preempt it (try_preemption returned)  *)
(* and has not executed the preemption yet.  The work of a run is counted  *)
(* from this state on.                                                     *)
(***************************************************************************)
PlannedDeployments ==
    <<[Deployment("c1", LOW, Res(2, 2, 0)) EXCEPT !.status = RUNNING],
      Deployment("c1", HIGH, Res(4, 2, 1))>>

InitPlanned ==
    /\ deployments = PlannedDeployments
    /\ queue = EmptyBag
    /\ workers = SetToBag({
          Invocation("execute", ProcessTask(1, 0), Res(4, 4, 1)),
          [Invocation("preempt", ProcessTask(2, 0), Res(2, 2, 1))
              EXCEPT !.preemptible = <<Lpd(PlannedDeployments, 1)>>]})
    /\ revoked = {}
    /\ dispatched = 0
    /\ snapshots = <<>>

SpecPlanned == InitPlanned /\ [][Next]_vars

(***************************************************************************)
(* Properties                                                              *)
(***************************************************************************)
Invocations == BagToSet(workers)

Requested(d) ==
    Res(deployments[d].requested_cpu, deployments[d].requested_ram,
        deployments[d].requested_gpu)

PriorityOf(d) == get_priority_value(deployments[d].priority)

Used(c) == get_cluster_resource_utilization(deployments)[c].used_resources

Total(c) == Clusters[c]

Exceeds(a, b) == a.cpu > b.cpu \/ a.ram > b.ram \/ a.gpu > b.gpu

\* C1: in every reachable state every workload has attempts <= max_attempts.
AttemptsWithinMax ==
    \A d \in DeploymentIds :
        deployments[d].attempts <= deployments[d].max_attempts

\* C2: once a workload is COMPLETED no step changes its status again.
CompletedIsTerminal ==
    [][\A d \in DeploymentIds :
          deployments[d].status = COMPLETED
              => deployments'[d].status = COMPLETED]_vars

\* C3: with serialized admissions, every cluster has used <= total on cpu,
\* ram and gpu in every reachable state.
UsedWithinTotal ==
    \A c \in ClusterIds : ~Exceeds(Used(c), Total(c))

\* The step in which the invocation `inv` goes from one position to `new`,
\* the other invocations staying as they are.
Moves(inv, new) ==
    /\ BagIn(inv, workers)
    /\ new # inv
    /\ workers' = Replace(inv, new)

\* The step in which the invocation `inv` returns.
Returns(inv) ==
    /\ BagIn(inv, workers)
    /\ workers' = Finish(inv)

\* A step of the invocation `inv`: it leaves its position and no other
\* invocation in progress moves.
Acts(inv) ==
    /\ BagIn(inv, workers)
    /\ CopiesIn(inv, workers') = CopiesIn(inv, workers) - 1
    /\ \A o \in Invocations \ {inv} :
          CopiesIn(o, workers') = CopiesIn(o, workers)

\* C4: the admission commit rests on the capacity the invocation read, not
\* on the capacity at the commit: an invocation whose check passed read an
\* available capacity that covers its request, and its next step commits
\* RUNNING whatever was committed in between.  Two concurrent invocations on
\* one cluster can so both pass the check on the same reading, both commit
\* RUNNING and leave the cluster with used > total (RaceOversubscribes).
AdmissionRestsOnReading ==
    [][\A inv \in Invocations :
          (inv.pc = "admit" /\ Acts(inv))
          => /\ Enough(inv.available, deployments[inv.deployment_id])
             /\ deployments'[inv.deployment_id].status = RUNNING
             /\ Moves(inv, [inv EXCEPT
                    !.pc = "execute",
                    !.attempts = deployments[inv.deployment_id].attempts])]_vars

\* Two invocations for different workloads of one cluster read the same
\* available capacity, were both admitted, and the cluster is over-subscribed.
RaceOversubscribes ==
    \E a, b \in Invocations :
        /\ a.deployment_id # b.deployment_id
        /\ deployments[a.deployment_id].cluster_id
              = deployments[b.deployment_id].cluster_id
        /\ a.pc = "execute" /\ b.pc = "execute"
        /\ a.preemptible = <<>> /\ b.preemptible = <<>>
        /\ a.available = b.available
        /\ deployments[a.deployment_id].status = RUNNING
        /\ deployments[b.deployment_id].status = RUNNING
        /\ \A d \in DeploymentIds : deployments[d].preempted_count = 0
        /\ Exceeds(Used(deployments[a.deployment_id].cluster_id),
                   Total(deployments[a.deployment_id].cluster_id))

\* C5: the planner only selects workloads that run on the candidate's cluster.
PreemptsOnOwnClusterOnly ==
    \A inv \in Invocations :
        \A i \in DOMAIN inv.preemptible :
            deployments[inv.preemptible[i].id].cluster_id
                = deployments[inv.deployment_id].cluster_id

\* C6: a workload whose request exceeds the total capacity of its cluster on
\* some dimension is never RUNNING.
OversizedNeverRuns ==
    \A d \in DeploymentIds :
        Exceeds(Requested(d), Total(deployments[d].cluster_id))
            => deployments[d].status # RUNNING

\* C7: the planner never selects a workload whose priority value is greater
\* than or equal to the candidate's.
PreemptsStrictlyLowerOnly ==
    \A inv \in Invocations :
        \A i \in DOMAIN inv.preemptible :
            PriorityOf(inv.preemptible[i].id) < PriorityOf(inv.deployment_id)

\* The planner selected a workload and left a running workload of equal or
\* higher priority alone.
PlannerSkippedHigher ==
    \E inv \in Invocations :
        /\ inv.preemptible # <<>>
        /\ \E d \in DeploymentIds \ {inv.deployment_id} :
              /\ deployments[d].status = RUNNING
              /\ PriorityOf(d) >= PriorityOf(inv.deployment_id)
              /\ d \notin Ids(inv.preemptible)

Plus(a, S) ==
    Res(a.cpu + SumOver(S, deployments, "requested_cpu"),
        a.ram + SumOver(S, deployments, "requested_ram"),
        a.gpu + SumOver(S, deployments, "requested_gpu"))

\* C8: when the planner reports success, the available quantities plus the
\* requests of the returned set cover the candidate's request on cpu, ram and
\* gpu; when it reports failure, the available quantities plus the requests
\* of all lower-priority running workloads fall short on some dimension.
PlannerVerdictIsSound ==
    [][\A inv \in Invocations : \A new \in BagToSet(workers') :
          (inv.pc = "try_preemption" /\ Moves(inv, new)) =>
              LET candidate == Requested(inv.deployment_id)
                  lower == {d \in DeploymentIds :
                              /\ deployments[d].status = RUNNING
                              /\ PriorityOf(d) < PriorityOf(inv.deployment_id)}
              IN /\ new.pc \in {"preempt", "queue"}
                 /\ new.pc = "preempt" =>
                       ~Exceeds(candidate,
                                Plus(inv.available, Ids(new.preemptible)))
                 /\ new.pc = "queue" =>
                       Exceeds(candidate, Plus(inv.available, lower))]_vars

\* A planned preemption waits to be executed while another candidate, for
\* which the planner failed, is queued.
PlannerSucceededAndFailed ==
    /\ \E inv \in Invocations : inv.pc = "preempt" /\ inv.preemptible # <<>>
    /\ \E d \in DeploymentIds : deployments[d].status = QUEUED

\* C9: when the planner fails for a candidate, neither the planner's step
\* nor the rest of the invocation changes any other workload (status,
\* was_preempted and preempted_count included), and no stop signal is issued.
FailedPlannerTouchesNothing ==
    [][\A inv \in Invocations :
          (\/ inv.pc = "queue" /\ Acts(inv)
           \/ inv.pc = "try_preemption"
                 /\ \E new \in BagToSet(workers') :
                       new.pc = "queue" /\ Moves(inv, new))
          => /\ revoked' = revoked
             /\ \A d \in DeploymentIds \ {inv.deployment_id} :
                   deployments'[d] = deployments[d]]_vars

\* The planner failed after it scanned lower-priority running workloads.
PlannerFailedAfterScan ==
    \E inv \in Invocations :
        /\ inv.pc = "queue"
        /\ inv.preemptible # <<>>
        /\ \A i \in DOMAIN inv.preemptible :
              deployments[inv.preemptible[i].id].status = RUNNING

\* C10: an invocation whose admission check and preemption both failed sets
\* its workload QUEUED and returns: it does not execute, leaves attempts as
\* they are and dispatches nothing.
QueuedWithoutExecution ==
    [][\A inv \in Invocations :
          (inv.pc = "queue" /\ Acts(inv))
          => /\ deployments'[inv.deployment_id].status = QUEUED
             /\ deployments'[inv.deployment_id].attempts
                   = deployments[inv.deployment_id].attempts
             /\ Returns(inv)
             /\ queue' = queue
             /\ dispatched' = dispatched]_vars

\* A workload is QUEUED and its invocation has returned.
QueuedAndReturned ==
    \E d \in DeploymentIds :
        /\ deployments[d].status = QUEUED
        /\ \A inv \in Invocations : inv.deployment_id # d
        /\ \A m \in BagToSet(queue) : m.deployment_id # d

\* The process_deployment tasks a step adds to the broker's queue.
Dispatched ==
    [m \in {x \in BagToSet(queue') :
               /\ x.task = "process_deployment"
               /\ CopiesIn(x, queue') > CopiesIn(x, queue)}
        |-> CopiesIn(m, queue') - CopiesIn(m, queue)]

\* The step in which the executor of `inv` ends with an exception: the
\* invocation returns and the commit is not the one of success.
Faults(inv) ==
    /\ inv.pc = "execute"
    /\ Acts(inv)
    /\ deployments'[inv.deployment_id].status # COMPLETED

ManualRetry(d) ==
    /\ deployments[d].status \in retryable_statuses
    /\ deployments'[d] = [deployments[d] EXCEPT !.status = PENDING,
                                                !.attempts = 0,
                                                !.failure_reason = None]
    /\ workers' = workers

\* C12: a workload whose attempts equals max_attempts is FAILED, and every
\* step but its manual retry leaves it FAILED, sends no process_deployment
\* task for it and starts or advances no invocation for it.
ExhaustedStaysFailed ==
    [][\A d \in DeploymentIds :
          deployments[d].attempts = deployments[d].max_attempts
          => /\ deployments[d].status = FAILED
             /\ \/ ManualRetry(d)
                \/ /\ deployments'[d].status = FAILED
                   /\ \A m \in DOMAIN Dispatched : m.deployment_id # d
                   /\ \A inv \in BagToSet(workers') :
                         inv.deployment_id = d
                            => CopiesIn(inv, workers') <= CopiesIn(inv, workers)]_vars

\* A process_deployment task for the workload d is waiting or running.
InFlight(d) ==
    \/ \E m \in BagToSet(queue) :
          m.task = "process_deployment" /\ m.deployment_id = d
    \/ \E inv \in Invocations : inv.deployment_id = d

\* No invocation is in progress and no process_deployment or
\* check_queued_deployments task is waiting: no completion is to come.
AtRest ==
    /\ workers = EmptyBag
    /\ \A m \in BagToSet(queue) : m = CaptureTask

\* C13: the sweeper runs on a periodic schedule, so a workload that is
\* QUEUED when nothing is left to complete is eventually dispatched again.
QueuedIsEventuallyDispatched ==
    \A d \in 1..(MaxWork \div 2) :
        (d \in DeploymentIds /\ deployments[d].status = QUEUED /\ AtRest)
            ~> InFlight(d)

\* C14: a check_queued_deployments task is sent only by the step in which
\* an invocation's executor commits COMPLETED: an invocation that ends as a
\* no-op, in cluster-not-found, in QUEUED or in an execution fault sends none.
SweepOnlyAfterCompletion ==
    [][CopiesIn(SweepTask, queue') > CopiesIn(SweepTask, queue)
          => \E inv \in Invocations :
                /\ inv.pc = "execute"
                /\ Acts(inv)
                /\ deployments'[inv.deployment_id].status = COMPLETED]_vars

\* The step is a run of check_queued_deployments.
Sweeps ==
    /\ BagIn(SweepTask, queue)
    /\ CopiesIn(SweepTask, queue') = CopiesIn(SweepTask, queue) - 1

ManualRetryContract ==
    [][/\ \A dep_id \in DOMAIN deployments' \cup {UnknownId} :
             LET table == deployments'
                 r == retry_deployment_response(table, dep_id)
             IN IF /\ dep_id \in DOMAIN table
                   /\ table[dep_id].status \in {PREEMPTED, QUEUED, FAILED}
                THEN /\ r.status_code = 200
                     /\ r.table = [d \in DOMAIN table |->
                           IF d = dep_id
                           THEN [table[d] EXCEPT !.status = PENDING,
                                                 !.attempts = 0,
                                                 !.failure_reason = None]
                           ELSE table[d]]
                     /\ r.tasks = SetToBag({ProcessTask(dep_id, 0)})
                     /\ ProcessTask(dep_id, 0).retry = 0
                ELSE /\ r.status_code \in {400, 404}
                     /\ r.table = table
                     /\ r.tasks = EmptyBag
       /\ \A d \in DeploymentIds :
             (deployments[d].status # PENDING /\ deployments'[d].status = PENDING)
             => /\ ManualRetry(d)
                /\ Dispatched = SetToBag({ProcessTask(d, 0)})
                /\ \A o \in DeploymentIds \ {d} :
                      deployments'[o] = deployments[o]
                /\ Len(deployments') = Len(deployments)]_vars

\* A preempted workload was retried by hand: it is PENDING again, keeps its
\* preemption counters, and its task waits under the workload's own id.
PreemptedWasRetried ==
    \E d \in DeploymentIds :
        /\ deployments[d].status = PENDING
        /\ deployments[d].was_preempted
        /\ deployments[d].attempts = 0
        /\ BagIn(ProcessTask(d, 0), queue)

\* The step in which a worker takes the task m from the queue.
Takes(m) ==
    /\ BagIn(m, queue)
    /\ m.task = "process_deployment"
    /\ CopiesIn(m, queue') = CopiesIn(m, queue) - 1

\* C17: an invocation that cannot resolve its workload's cluster sets status
\* FAILED with the fixed reason and returns: attempts and every other field
\* and row stay as they are, no task (retry or sweep) is sent, and no
\* invocation goes on to the executor.
ClusterNotFoundFailsOnly ==
    [][\A m \in BagToSet(queue) :
          (/\ Takes(m)
           /\ m.deployment_id \in DeploymentIds
           /\ deployments[m.deployment_id].cluster_id \notin ClusterIds)
          => /\ deployments' =
                   [deployments EXCEPT
                      ![m.deployment_id].status = FAILED,
                      ![m.deployment_id].failure_reason =
                          "Cluster not found or no resources available"]
             /\ deployments'[m.deployment_id].attempts
                   = deployments[m.deployment_id].attempts
             /\ queue' = queue (-) SetToBag({m})
             /\ UNCHANGED <<workers, revoked, dispatched, snapshots>>]_vars

\* The workload of the removed cluster was processed: it is FAILED with
\* the fixed reason and no attempt counted, and nothing is left to run for it.
FailedForMissingCluster ==
    \E d \in DeploymentIds :
        /\ deployments[d].cluster_id \notin ClusterIds
        /\ deployments[d].status = FAILED
        /\ deployments[d].failure_reason
              = "Cluster not found or no resources available"
        /\ deployments[d].attempts = 0
        /\ ~InFlight(d)

\* C18: an invocation for an id no workload has changes no workload and no
\* snapshot (the clusters are fixed), starts nothing and sends no task.
AbsentWorkloadIsNoOp ==
    [][\A m \in BagToSet(queue) :
          (Takes(m) /\ m.deployment_id \notin DeploymentIds)
          => /\ queue' = queue (-) SetToBag({m})
             /\ UNCHANGED <<deployments, workers, revoked, dispatched,
                            snapshots>>]_vars

\* The task for the absent workload was taken, and the workloads there are
\* have not been touched.
AbsentWorkloadTaskTaken ==
    /\ ~InFlight(UnknownId)
    /\ deployments = StoredDeployments

RECURSIVE Contribution(_, _, _)
\* What the first n workloads contribute to the used quantity `field` of
\* the cluster c: the request of a workload of c that is RUNNING or
\* COMPLETED, and nothing for any other workload.
Contribution(n, c, field) ==
    IF n = 0 THEN 0
    ELSE Contribution(n - 1, c, field)
           + (IF /\ deployments[n].cluster_id = c
                 /\ deployments[n].status \in {RUNNING, COMPLETED}
              THEN deployments[n][field]
              ELSE 0)

\* C19: the accountant reports every cluster, with total equal to its
\* capacity and used equal, per dimension, to the sum of the requests of
\* exactly its RUNNING and COMPLETED workloads (zero if it has none).
AccountantSumsRunningAndCompleted ==
    LET utilization == get_cluster_resource_utilization(deployments)
        n == Len(deployments)
    IN /\ DOMAIN utilization = ClusterIds
       /\ \A c \in ClusterIds :
             /\ utilization[c].total_resources = Clusters[c]
             /\ utilization[c].used_resources =
                   Res(Contribution(n, c, "requested_cpu"),
                       Contribution(n, c, "requested_ram"),
                       Contribution(n, c, "requested_gpu"))

\* One cluster has a COMPLETED workload, which counts, and a PREEMPTED or
\* FAILED one, which does not; the other cluster has only a QUEUED workload
\* and reports zero.
AccountantCountsCompletedOnly ==
    /\ \E a, b \in DeploymentIds :
          /\ deployments[a].cluster_id = "c1"
          /\ deployments[b].cluster_id = "c1"
          /\ deployments[a].status = COMPLETED
          /\ deployments[b].status \in {PREEMPTED, FAILED}
          /\ Used("c1") = Requested(a)
    /\ \E d \in DeploymentIds :
          /\ deployments[d].cluster_id = "c2"
          /\ deployments[d].status = QUEUED
    /\ Used("c2") = Res(0, 0, 0)

\* The used quantities of the cluster c after the step.
UsedAfter(c) == get_cluster_resource_utilization(deployments')[c].used_resources

\* C20: the step RUNNING -> COMPLETED of a workload leaves the used
\* quantities of every cluster as they are, and the used quantities of a
\* cluster go down only in a step that moves one of its RUNNING or COMPLETED
\* workloads to PREEMPTED or FAILED.
CapacityIsNeverReleased ==
    [][\A c \in ClusterIds :
          /\ (\E d \in DeploymentIds :
                 /\ deployments[d].status = RUNNING
                 /\ deployments' = [deployments EXCEPT
                                       ![d].status = COMPLETED,
                                       ![d].completed_at = "set"])
             => UsedAfter(c) = Used(c)
          /\ Exceeds(Used(c), UsedAfter(c))
             => \E d \in DeploymentIds :
                   /\ deployments[d].cluster_id = c
                   /\ deployments[d].status \in {RUNNING, COMPLETED}
                   /\ deployments'[d].status \in {PREEMPTED, FAILED}]_vars

\* C21: the admission checker answers has_resources exactly when total - used
\* covers the request on cpu, ram and gpu at once, and returns the three
\* quantities total - used as they are, negative ones included; for a
\* missing cluster record it answers (false, 0, 0, 0).  An invocation that
\* takes a task holds these quantities for its workload's cluster and goes
\* to the admission exactly when the answer is true.
AdmissionCheckerContract ==
    [][/\ \A d \in DOMAIN deployments' : \A c \in ClusterIds :
             LET deployment == deployments'[d]
                 reading == get_cluster_resource_utilization(deployments')[c]
                 total == reading.total_resources
                 used == reading.used_resources
                 r == check_deployment_resources(deployment, reading)
             IN /\ r.available = Res(total.cpu - used.cpu,
                                     total.ram - used.ram,
                                     total.gpu - used.gpu)
                /\ r.has_resources <=>
                      /\ total.cpu - used.cpu >= deployment.requested_cpu
                      /\ total.ram - used.ram >= deployment.requested_ram
                      /\ total.gpu - used.gpu >= deployment.requested_gpu
                /\ check_deployment_resources(deployment, NoClusterResources)
                      = [has_resources |-> FALSE, available |-> Res(0, 0, 0)]
       /\ \A m \in BagToSet(queue) :
             (/\ Takes(m)
              /\ m.deployment_id \in DeploymentIds
              /\ deployments[m.deployment_id].cluster_id \in ClusterIds)
             => LET c == deployments[m.deployment_id].cluster_id
                    a == Res(Total(c).cpu - Used(c).cpu,
                             Total(c).ram - Used(c).ram,
                             Total(c).gpu - Used(c).gpu)
                    covers == ~Exceeds(Requested(m.deployment_id), a)
                IN workers' = workers (+) SetToBag({
                      Invocation(IF covers THEN "admit" ELSE "try_preemption",
                                 m, a)})]_vars

\* An invocation was refused on a reading with a negative cpu quantity
\* (the cluster is over-subscribed) although the gpu quantity covers its
\* request.
RefusedOnNegativeReading ==
    \E inv \in Invocations :
        /\ inv.pc = "try_preemption"
        /\ inv.available.cpu < 0
        /\ inv.available.gpu >= deployments[inv.deployment_id].requested_gpu

\* The increases of a reading the model compares.
Increases ==
    {Res(c, r, g) : c \in 0..MaxIncrease, r \in 0..MaxIncrease,
                    g \in 0..MaxIncrease}

\* The reading of the accounting with `more` available on top.
Raised(cluster_resources, more) ==
    [cluster_resources EXCEPT
        !.used_resources = Res(@.cpu - more.cpu, @.ram - more.ram,
                               @.gpu - more.gpu)]

\* The reading of the accounting with `less` available.
Lowered(cluster_resources, less) ==
    [cluster_resources EXCEPT
        !.used_resources = Res(@.cpu + less.cpu, @.ram + less.ram,
                               @.gpu + less.gpu)]

Admits(d, cluster_resources) ==
    check_deployment_resources(deployments[d], cluster_resources).has_resources

\* C22: admission is monotonic in the available capacity: a workload the
\* checker admits on a reading is admitted on every reading that is
\* component-wise at least as high, and one it refuses is refused on every
\* reading that is component-wise at most as high.
AdmissionIsMonotonic ==
    \A d \in DeploymentIds : \A c \in ClusterIds : \A by \in Increases :
        LET reading == get_cluster_resource_utilization(deployments)[c]
        IN /\ Admits(d, reading) => Admits(d, Raised(reading, by))
           /\ ~Admits(d, reading) => ~Admits(d, Lowered(reading, by))
           /\ Admits(d, Lowered(reading, by)) => Admits(d, reading)

\* A workload was admitted on a reading above its request, and the present
\* reading of its cluster refuses it while a higher one admits it.
AdmittedAboveRequest ==
    \E inv \in Invocations :
        LET d == inv.deployment_id
            reading == get_cluster_resource_utilization(deployments)
                          [deployments[d].cluster_id]
        IN /\ inv.pc = "admit"
           /\ Exceeds(inv.available, Requested(d))
           /\ ~Admits(d, reading)
           /\ \E by \in Increases : Admits(d, Raised(reading, by))

\* C23: when the preemption of a candidate is executed, every workload of
\* the selected set ends PREEMPTED, with was_preempted true and a
\* preempted_count one higher than it had before this preemption, and the
\* candidate's next step sets it RUNNING.
PreemptionMarksVictims ==
    [][\A inv \in Invocations :
          /\ (inv.pc = "preempt" /\ Acts(inv))
             => \A d \in Ids(inv.preemptible) :
                   /\ deployments'[d].status = PREEMPTED
                   /\ deployments'[d].was_preempted
                   /\ deployments'[d].preempted_count
                         = deployments[d].preempted_count + 1
          /\ (inv.pc = "run" /\ Acts(inv))
             => deployments'[inv.deployment_id].status = RUNNING]_vars

\* C24: a PREEMPTED workload leaves that status only for RUNNING or QUEUED,
\* by the admission of an invocation for it, or for PENDING, by a manual
\* retry; the execution the preemption interrupted never takes it from
\* PREEMPTED to COMPLETED or FAILED.
PreemptedLeavesByResubmission ==
    [][\A d \in DeploymentIds :
          (deployments[d].status = PREEMPTED
              /\ deployments'[d].status # PREEMPTED)
          => \/ ManualRetry(d)
             \/ /\ deployments'[d].status \in {RUNNING, QUEUED}
                /\ \E inv \in Invocations :
                      /\ inv.deployment_id = d
                      /\ inv.pc \in {"admit", "run", "queue"}
                      /\ Acts(inv)]_vars

\* The fields of a workload that are set at its creation.
CreationFields ==
    {"cluster_id", "priority", "requested_cpu", "requested_ram",
     "requested_gpu"}

\* C25: no step (orchestrator invocation, preemption, retry, manual retry,
\* sweep, snapshot) changes the requested cpu, ram and gpu, the priority or
\* the cluster of a workload there is, and no step removes a workload.
CreationFieldsNeverChange ==
    [][/\ Len(deployments') >= Len(deployments)
       /\ \A d \in DeploymentIds : \A f \in CreationFields :
             deployments'[d][f] = deployments[d][f]]_vars

\* A workload was preempted, retried by hand and queued again, and a
\* snapshot was taken.
PreemptedRetriedAndObserved ==
    /\ Len(snapshots) > 0
    /\ \E d \in DeploymentIds :
          /\ deployments[d].was_preempted
          /\ deployments[d].status = QUEUED
          /\ dispatched >= 3

\* C26: in every reachable state a workload that is not FAILED has no
\* failure_reason.
FailureReasonOnlyWhenFailed ==
    \A d \in DeploymentIds :
        deployments[d].failure_reason # None => deployments[d].status = FAILED

\* C27: create-workload for an existing cluster adds one workload, PENDING
\* with attempts 0, preempted_count 0 and was_preempted false, and sends
\* exactly one process_deployment task, under the workload's own id; for an
\* unknown cluster it is rejected, adds nothing and sends nothing.  A step
\* that adds a workload is such a creation: it changes no other workload
\* and no invocation.
CreateContract ==
    [][/\ \A args \in DeploymentInput :
             LET table == deployments'
                 r == create_deployment_response(table, args)
                 id == Len(table) + 1
             IN IF args.cluster_id \in ClusterIds
                THEN /\ r.status_code = 200
                     /\ Len(r.table) = Len(table) + 1
                     /\ \A d \in DOMAIN table : r.table[d] = table[d]
                     /\ r.table[id].status = PENDING
                     /\ r.table[id].attempts = 0
                     /\ r.table[id].preempted_count = 0
                     /\ r.table[id].was_preempted = FALSE
                     /\ r.table[id].cluster_id = args.cluster_id
                     /\ r.tasks = SetToBag({ProcessTask(id, 0)})
                     /\ ProcessTask(id, 0).retry = 0
                ELSE /\ r.status_code = 404
                     /\ r.table = table
                     /\ r.tasks = EmptyBag
       /\ Len(deployments') # Len(deployments) =>
             LET id == Len(deployments) + 1
             IN /\ Len(deployments') = id
                /\ \A d \in DeploymentIds : deployments'[d] = deployments[d]
                /\ deployments'[id].cluster_id \in ClusterIds
                /\ deployments'[id].status = PENDING
                /\ deployments'[id].attempts = 0
                /\ deployments'[id].preempted_count = 0
                /\ deployments'[id].was_preempted = FALSE
                /\ Dispatched = SetToBag({ProcessTask(id, 0)})
                /\ workers' = workers]_vars

\* The workload created last waits for its first invocation: it is PENDING
\* with its counters at 0 and its one task is in the queue under its own id.
CreatedAndDispatched ==
    LET d == Len(deployments)
    IN /\ d > 1
       /\ deployments[d].status = PENDING
       /\ deployments[d].attempts = 0
       /\ deployments[d].preempted_count = 0
       /\ ~deployments[d].was_preempted
       /\ CopiesIn(ProcessTask(d, 0), queue) = 1
       /\ \A inv \in Invocations : inv.deployment_id # d

\* C28: the automatic flow resubmits a preempted workload: a workload that
\* is PREEMPTED when nothing is left to complete is eventually dispatched
\* again, without a manual retry.
PreemptedIsEventuallyDispatched ==
    \A d \in 1..(MaxWork \div 2) :
        (d \in DeploymentIds /\ deployments[d].status = PREEMPTED /\ AtRest)
            ~> InFlight(d)

\* The three utilization percentages of a snapshot row, in hundredths of a
\* percent, with the used and total quantity each is derived from.
Percentages(row) ==
    { <<row.cpu_utilization, row.used.cpu, row.total.cpu>>,
      <<row.ram_utilization, row.used.ram, row.total.ram>>,
      <<row.gpu_utilization, row.used.gpu, row.total.gpu>> }

\* C29: every snapshot written has each of its three utilization percentages
\* between 0 and 100, equal to used / total * 100 for its dimension (rounded
\* to two decimals) and 0 when total is 0.
SnapshotUtilizationInRange ==
    \A i \in DOMAIN snapshots : \A c \in DOMAIN snapshots[i] :
        \A p \in Percentages(snapshots[i][c]) :
            /\ p[1] >= 0
            /\ p[1] <= 100 * 100
            /\ p[3] = 0 => p[1] = 0
            /\ p[3] > 0 => /\ 2 * p[3] * p[1] <= 2 * p[2] * 10000 + p[3]
                           /\ 2 * p[3] * p[1] > 2 * p[2] * 10000 - p[3]

\* The step in which a worker takes the task m is decided by the workload
\* table alone: the invocation holds the available quantities of the
\* accounting and goes to the admission exactly when they cover the request.
ReadsTheTable(m) ==
    LET d == m.deployment_id
        reading == get_cluster_resource_utilization(deployments)
                      [deployments[d].cluster_id]
        r == check_deployment_resources(deployments[d], reading)
    IN workers' = workers (+) SetToBag({
          Invocation(IF r.has_resources THEN "admit" ELSE "try_preemption",
                     m, Available(reading))})

\* C30: the snapshot recorder only observes.  A step that changes the
\* snapshots adds one row for every cluster to them, keeps the rows there
\* are, changes no workload and no invocation and sends nothing.  The
\* scheduler does not read the snapshots: whatever they hold, an invocation
\* decides the admission on the accounting of the workload table, and a
\* sweep sends the QUEUED workloads of the table.
SnapshotsOnlyObserve ==
    [][/\ snapshots' # snapshots =>
             LET n == Len(snapshots)
             IN /\ Len(snapshots') = n + 1
                /\ SubSeq(snapshots', 1, n) = snapshots
                /\ DOMAIN snapshots'[n + 1] = ClusterIds
                /\ \A c \in ClusterIds :
                      /\ snapshots'[n + 1][c].cluster_id = c
                      /\ snapshots'[n + 1][c].used = Used(c)
                      /\ snapshots'[n + 1][c].total = Total(c)
                /\ queue' = queue (-) SetToBag({CaptureTask})
                /\ UNCHANGED <<deployments, workers, revoked, dispatched>>
       /\ \A m \in BagToSet(queue) :
             (/\ Takes(m)
              /\ m.deployment_id \in DeploymentIds
              /\ deployments[m.deployment_id].cluster_id \in ClusterIds)
             => ReadsTheTable(m)
       /\ Sweeps =>
             Dispatched =
                SetToBag({ProcessTask(d, 0) :
                            d \in {x \in DeploymentIds :
                                      deployments[x].status = QUEUED}})]_vars

\* An invocation holds the available quantities of the table although the
\* last snapshot of its workload's cluster shows other ones.
StaleSnapshotIgnored ==
    /\ snapshots # <<>>
    /\ \E inv \in Invocations :
          LET c == deployments[inv.deployment_id].cluster_id
          IN /\ inv.pc \in {"admit", "try_preemption"}
             /\ inv.available # snapshots[Len(snapshots)][c].available
             /\ inv.available
                   = Available(get_cluster_resource_utilization(deployments)[c])

\* C31: the executor's success commits status COMPLETED and the completion
\* timestamp together: in every reachable state a COMPLETED workload has a
\* completion timestamp.
CompletedHasTimestamp ==
    \A d \in DeploymentIds :
        deployments[d].status = COMPLETED => deployments[d].completed_at # None

\* A workload completed on its second attempt, and its invocation returned.
CompletedOnRetry ==
    \E d \in DeploymentIds :
        /\ deployments[d].status = COMPLETED
        /\ deployments[d].completed_at = "set"
        /\ deployments[d].attempts = 1
        /\ \A inv \in Invocations : inv.deployment_id # d

\* The value the three tokens have in any letter case, and medium for
\* every other priority.
TokenValue(priority) ==
    IF priority = NonePriority THEN 1
    ELSE IF str_lower(priority) = LOW THEN 0
    ELSE IF str_lower(priority) = MEDIUM THEN 1
    ELSE IF str_lower(priority) = HIGH THEN 2
    ELSE 1

\* C32: get_priority_value gives 0, 1, 2 for 'low', 'medium', 'high' in any
\* letter case and 1 (medium) for every other priority a workload has: an
\* absent one, or a str that is not one of the three tokens, a str with a
\* '.' in it included.
PriorityValueOfTokens ==
    \A d \in DeploymentIds :
        get_priority_value(deployments[d].priority)
            = TokenValue(deployments[d].priority)

\* The ids of the first k deployments of a list of the planner.
FirstIds(preemptible, k) == {preemptible[i].id : i \in 1..k}

\* C33: on success the planner returns the shortest prefix, in ascending
\* order of priority, of the lower-priority running workloads whose requests
\* added to the available quantities cover the candidate's request on cpu,
\* ram and gpu: no shorter prefix covers it, and every lower-priority
\* running workload left out has a priority at least as high as every
\* selected one (no medium is taken while a low is left).
PlannerTakesShortestPrefix ==
    [][\A inv \in Invocations : \A new \in BagToSet(workers') :
          (inv.pc = "try_preemption" /\ Moves(inv, new) /\ new.pc = "preempt")
          => LET candidate == Requested(inv.deployment_id)
                 sel == new.preemptible
                 n == Len(sel)
                 lower == {d \in DeploymentIds :
                             /\ deployments[d].status = RUNNING
                             /\ PriorityOf(d) < PriorityOf(inv.deployment_id)}
             IN /\ Ids(sel) \subseteq lower
                /\ \A i, j \in 1..n : i # j => sel[i].id # sel[j].id
                /\ \A i, j \in 1..n :
                      i < j => PriorityOf(sel[i].id) <= PriorityOf(sel[j].id)
                /\ \A d \in lower \ Ids(sel) : \A i \in 1..n :
                      PriorityOf(d) >= PriorityOf(sel[i].id)
                /\ ~Exceeds(candidate, Plus(inv.available, Ids(sel)))
                /\ \A k \in 0..(n - 1) :
                      Exceeds(candidate,
                              Plus(inv.available, FirstIds(sel, k)))]_vars

\* The planner took the low workload for a high candidate and left the
\* running medium one, which was created first, alone.
PlannerLeftMediumAlone ==
    \E inv \in Invocations :
        /\ inv.pc = "preempt"
        /\ Len(inv.preemptible) = 1
        /\ deployments[inv.preemptible[1].id].priority = LOW
        /\ deployments[inv.deployment_id].priority = HIGH
        /\ \E d \in DeploymentIds :
              /\ d < inv.preemptible[1].id
              /\ deployments[d].priority = MEDIUM
              /\ deployments[d].status = RUNNING

\* The invocations that are executing the workload d: between the commit of
\* RUNNING and the end of the executor.
Executing(d) ==
    {inv \in Invocations : inv.deployment_id = d /\ inv.pc = "execute"}

\* C34: at any time at most one invocation is executing a given workload:
\* create, automatic retry, sweeps and manual retry together never have one
\* workload executed by two invocations at once.
AtMostOneExecution ==
    \A d \in DeploymentIds :
        /\ Cardinality(Executing(d)) <= 1
        /\ \A inv \in Executing(d) : CopiesIn(inv, workers) = 1

\* Two invocations for different candidates hold the same reading of one
\* victim, and both candidates were committed RUNNING on the capacity it
\* gave back.
CreditedTwice(table, invs) ==
    \E a, b \in invs :
        /\ a.deployment_id # b.deployment_id
        /\ a.pc = "execute" /\ b.pc = "execute"
        /\ table[a.deployment_id].status = RUNNING
        /\ table[b.deployment_id].status = RUNNING
        /\ \E i \in DOMAIN a.preemptible : \E j \in DOMAIN b.preemptible :
              a.preemptible[i] = b.preemptible[j]

\* C35: the capacity a preempted workload gives back is credited to one
\* candidate at most: two concurrent invocations never select the same
\* RUNNING workload and both commit their candidates RUNNING; and the
\* preempted_count of a workload counts its changes from RUNNING to
\* PREEMPTED: it goes up by one in a step that makes such a change and
\* stays as it is in every other step.
PreemptionCreditedOnce ==
    [][/\ ~CreditedTwice(deployments', BagToSet(workers'))
       /\ \A d \in DeploymentIds :
             deployments'[d].preempted_count =
                IF /\ deployments[d].status = RUNNING
                   /\ deployments'[d].status = PREEMPTED
                THEN deployments[d].preempted_count + 1
                ELSE deployments[d].preempted_count]_vars

\* C36: in every reachable state a workload has was_preempted true exactly
\* when its preempted_count is above 0, and no step (the manual retry
\* included) makes the preempted_count of a workload smaller.
PreemptionCountersAgree ==
    [][\A d \in DeploymentIds :
          /\ deployments'[d].was_preempted
                <=> deployments'[d].preempted_count > 0
          /\ deployments'[d].preempted_count
                >= deployments[d].preempted_count]_vars

====
